---- MODULE Spec2Model ----
(***************************************************************************)
(* A model of pcanet.py: the patch grid (steps, Patches), the binary       *)
(* encoder (binarize, binary_to_decimal), the block histogram, the         *)
(* single-channel pipeline BasePCANet and the multi-channel wrapper        *)
(* PCANet.                                                                 *)
(*                                                                         *)
(* Arrays are nested sequences (1-indexed); grid offsets keep Python's     *)
(* 0-based values.  The incremental PCA estimator is an external black     *)
(* box: a successful partial_fit leaves some components_ matrix drawn from *)
(* a small set, and it rejects a batch holding a non-finite value.         *)
(***************************************************************************)
EXTENDS Integers, Sequences, FiniteSets, TLC

VARIABLES
    args,       \* the arguments of the call under way (None when idle)
    result,     \* the outcome of the last finished call (none while one runs)
    params,     \* the constructor's keyword arguments (pcanet_params)
    pcanets,    \* the pipelines: PCANet.pcanets, or the one BasePCANet
    pc,         \* position inside BasePCANet.fit / BasePCANet.transform
    cur,        \* index in pcanets of the pipeline the running call is on
    mem,        \* the arrays of the running call, by the name bound to them
    idx,        \* loop index of the running BasePCANet loop
    X,          \* the list X of BasePCANet.transform
    log,        \* estimator events of the running BasePCANet.fit, in order
    pre,        \* the filter banks and the batch as they were at call entry
    wpc,        \* position inside PCANet.fit / PCANet.transform
    wargs,      \* the arguments of the PCANet call under way
    wi,         \* loop index i of the running PCANet loop
    wX          \* the list X of PCANet.transform

vars == <<args, result, params, pcanets, pc, cur, mem, idx, X, log, pre,
          wpc, wargs, wi, wX>>

\* The variables of the two classes' calls, for the specifications of the
\* module-level functions, which leave them alone.
objvars == <<pcanets, cur, mem, idx, X, log, pre, wpc, wargs, wi, wX>>

None == "None"

\* self.n_bins = None (a number, so that it compares with a given n_bins).
NoBins == 0

\* No call has finished yet.
NoResult == [call |-> "none", raised |-> None, value |-> <<>>]

\* ------------------------------------------------------------------ bounds
MaxDim == 4         \* image and filter sides of the patch grid
MaxSide == 3        \* sides of the shapes validate_structure is run on
MaxStep == 2        \* step sides
MaxL2 == 3          \* stage-2 maps packed by the encoder
MaxWidth == 1       \* width of the maps given to the encoder
EncImages == 2      \* images in the stack given to the encoder
EncRows == 2        \* rows of the maps given to the encoder
MaxHistL2 == 2      \* n_l2_output of the histogram runs
MaxBins == 5        \* n_bins of the histogram runs

\* ----------------------------------------------------------------- helpers
Min(a, b) == IF a < b THEN a ELSE b

RECURSIVE Pow2(_)
Pow2(n) == IF n <= 0 THEN 1 ELSE 2 * Pow2(n - 1)

RECURSIVE SumSeq(_)
SumSeq(s) == IF s = <<>> THEN 0 ELSE Head(s) + SumSeq(Tail(s))

RECURSIVE Concat(_)
Concat(ss) == IF ss = <<>> THEN <<>> ELSE Head(ss) \o Concat(Tail(ss))

\* Python's seq[a:b] for 0 <= a: the slice stops at the end of seq.
Slice(seq, a, b) ==
    LET lo == Min(a, Len(seq))
        hi == Min(b, Len(seq))
    IN  [k \in 1..(hi - lo) |-> seq[lo + k]]

\* len(range(0, stop, step)) for step > 0.
RangeLen(stop, step) == IF stop <= 0 THEN 0 ELSE (stop + step - 1) \div step

\* range(0, stop, step) as the sequence of its values.
range(stop, step) == [k \in 1..RangeLen(stop, step) |-> (k - 1) * step]

\* ------------------------------------------------------- steps and Patches
\* A variant of steps whose ranges stop at h - fh and w - fw: it loses the last
\* offset whenever the filter reaches the edge of the image.
steps_stop_short(image_shape, filter_shape, step_shape) ==
    << range(image_shape[1] - filter_shape[1], step_shape[1]),
       range(image_shape[2] - filter_shape[2], step_shape[2]) >>

\* steps: ys = range(0, h-fh+1, sh), xs = range(0, w-fw+1, sw).
steps(image_shape, filter_shape, step_shape) ==
    << range(image_shape[1] - filter_shape[1] + 1, step_shape[1]),
       range(image_shape[2] - filter_shape[2] + 1, step_shape[2]) >>

output_shape(ys, xs) == <<Len(ys), Len(xs)>>

\* image[y:y+fh, x:x+fw]
Window(image, y, x, fh, fw) ==
    LET rows == Slice(image, y, y + fh)
    IN  [r \in 1..Len(rows) |-> Slice(rows[r], x, x + fw)]

\* Patches(image, filter_shape, step_shape): its ys, xs, the patches property
\* (itertools.product(ys, xs): y-major) and the output_shape property.
Patches(image, image_shape, filter_shape, step_shape) ==
    LET g == steps(image_shape, filter_shape, step_shape)
        ys == g[1]
        xs == g[2]
    IN  [ ys |-> ys, xs |-> xs,
          patches |-> [p \in 1..(Len(ys) * Len(xs)) |->
                          Window(image, ys[((p - 1) \div Len(xs)) + 1],
                                 xs[((p - 1) % Len(xs)) + 1],
                                 filter_shape[1], filter_shape[2])],
          output_shape |-> output_shape(ys, xs) ]

\* ------------------------------------------ binarize and binary_to_decimal
\* X[X > 0] = 1 on one value.
SetPositive(v) == IF v > 0 THEN 1 ELSE v
\* X[X <= 0] = 0 on one value.
SetNonPositive(v) == IF v <= 0 THEN 0 ELSE v

\* binarize on one value: the two masked assignments, in the code's order.
binarize(v) == SetNonPositive(SetPositive(v))

\* A 4D array mapped value by value.
Map4(A, Op(_)) ==
    [a \in 1..Len(A) |-> [b \in 1..Len(A[a]) |-> [c \in 1..Len(A[a][b]) |->
        [d \in 1..Len(A[a][b][c]) |-> Op(A[a][b][c][d])]]]]

\* A variant of weights with the powers in ascending order.
weights_little_endian(n) == [b \in 1..n |-> Pow2(b - 1)]

\* a = np.power(2, np.arange(n)[::-1])
weights(n) == [b \in 1..n |-> Pow2(n - b)]

\* binary_to_decimal: np.tensordot(X, a, axes=([1], [0])) on X of shape
\* (n_images, L2, y, x).
binary_to_decimal(A) ==
    [n \in 1..Len(A) |->
        LET L2 == Len(A[n])
            a == weights(L2)
        IN  [y \in 1..Len(A[n][1]) |-> [x \in 1..Len(A[n][1][y]) |->
                SumSeq([b \in 1..L2 |-> A[n][b][y][x] * a[b]])]]]

\* ---------------------------------------------------------------- histogram
\* np.linspace(-0.5, k - 0.5, n_bins)[i], times 2*(n_bins-1)  (0-based i).
Edge2(i, k, n_bins) == 2 * i * k - (n_bins - 1)

\* np.histogram(p, bins)[0] for the n_bins edges above: bin i is
\* [edge_i, edge_i+1), the last one closed on the right.
Flatten2(p) == Concat(p)

np_histogram(p, k, n_bins) ==
    LET v == Flatten2(p)
    IN  [i \in 1..(n_bins - 1) |->
            Cardinality({j \in 1..Len(v) :
                /\ Edge2(i - 1, k, n_bins) <= 2 * (n_bins - 1) * v[j]
                /\ IF i = n_bins - 1
                   THEN 2 * (n_bins - 1) * v[j] <= Edge2(i, k, n_bins)
                   ELSE 2 * (n_bins - 1) * v[j] < Edge2(i, k, n_bins)})]

\* self.n_bins after BasePCANet.histogram has run.
histogram_n_bins(n_l2_output, n_bins) ==
    IF n_bins = NoBins THEN Pow2(n_l2_output) + 1 ELSE n_bins

\* BasePCANet.histogram(binary_images): one feature vector per image.
histogram(binary_images, image_shape, block_shape, n_l2_output, n_bins) ==
    LET k == Pow2(n_l2_output)
        nb == histogram_n_bins(n_l2_output, n_bins)
    IN  [n \in 1..Len(binary_images) |->
            LET ps == Patches(binary_images[n], image_shape,
                              block_shape, block_shape).patches
            IN  Concat([p \in 1..Len(ps) |-> np_histogram(ps[p], k, nb)])]

\* ------------------------------------------------------ validate_structure
\* is_valid_: ys[-1] of an empty range is an IndexError; the or short-cuts.
is_valid_(input_shape, filter_shape, step_shape) ==
    LET g == steps(input_shape, filter_shape, step_shape)
        ys == g[1]
        xs == g[2]
    IN  IF Len(ys) = 0 THEN [err |-> "IndexError", out |-> None]
        ELSE IF ys[Len(ys)] + filter_shape[1] # input_shape[1]
        THEN [err |-> "ValueError", out |-> None]
        ELSE IF Len(xs) = 0 THEN [err |-> "IndexError", out |-> None]
        ELSE IF xs[Len(xs)] + filter_shape[2] # input_shape[2]
        THEN [err |-> "ValueError", out |-> None]
        ELSE [err |-> None, out |-> output_shape(ys, xs)]

\* BasePCANet.validate_structure: the error it raises, or None.
validate_structure(p) ==
    LET l1 == is_valid_(p.image_shape, p.filter_shape_l1, p.step_shape_l1)
    IN  IF l1.err # None THEN l1.err
        ELSE LET l2 == is_valid_(l1.out, p.filter_shape_l2, p.step_shape_l2)
             IN  IF l2.err # None THEN l2.err
                 ELSE is_valid_(l2.out, p.block_shape, p.block_shape).err

\* ------------------------------------------------------------- convolution
\* An array: its shape, its values, and the images of it (image indices, or
\* <<image, channel>> pairs of a 4D batch) that hold a NaN or an infinity.
Array(shape, data) == [shape |-> shape, data |-> data, nonfinite |-> {}]
NoArray == Array(<<0>>, <<>>)
ndim(a) == Len(a.shape)

\* components_.reshape(-1, *filter_shape): rows of fh*fw values to fh x fw.
reshape_filters(components_, filter_shape) ==
    [k \in 1..Len(components_) |->
        [r \in 1..filter_shape[1] |-> [c \in 1..filter_shape[2] |->
            components_[k][(r - 1) * filter_shape[2] + c]]]]

\* np.tensordot(patch, filter, axes=([1, 2], [1, 2])) for one patch and filter.
Dot(patch, filter) ==
    SumSeq([r \in 1..Len(patch) |->
        SumSeq([c \in 1..Len(patch[r]) |-> patch[r][c] * filter[r][c]])])

\* convolution(images, filters, filter_shape, step_shape) for a batch with at
\* least one image: the array of shape (n_filters, n_images, out_h, out_w).
convolution(images, image_shape, filters, filter_shape, step_shape) ==
    LET P(n) == Patches(images[n], image_shape, filter_shape, step_shape)
        out == P(Len(images)).output_shape
    IN  Array(<<Len(filters), Len(images), out[1], out[2]>>,
              [f \in 1..Len(filters) |-> [n \in 1..Len(images) |->
                  [oy \in 1..out[1] |-> [ox \in 1..out[2] |->
                      Dot(P(n).patches[(oy - 1) * out[2] + ox], filters[f])]]]])

\* convolution_l1 / convolution_l2: reading components_ of an estimator that
\* never finished a partial_fit is an AttributeError; with no image, X is a
\* 1-d array and np.swapaxes(X, 1, 2) fails.
convolve(pca, images, image_shape, filter_shape, step_shape) ==
    IF pca.components_ = <<>> THEN [raised |-> "AttributeError", value |-> NoArray]
    ELSE IF Len(images) = 0 THEN [raised |-> "AxisError", value |-> NoArray]
    ELSE [raised |-> None,
          value |-> convolution(images, image_shape,
                                reshape_filters(pca.components_, filter_shape),
                                filter_shape, step_shape)]

\* image_to_patch_vectors: the flattened patches less their mean, each
\* multiplied by its length fh*fw to stay in the integers.
image_to_patch_vectors(image, image_shape, filter_shape, step_shape) ==
    LET ps == Patches(image, image_shape, filter_shape, step_shape).patches
        flat == [p \in 1..Len(ps) |-> Concat(ps[p])]
    IN  [p \in 1..Len(flat) |-> [j \in 1..Len(flat[p]) |->
            Len(flat[p]) * flat[p][j] - SumSeq(flat[p])]]

\* Whether the patch vectors of one image fail before the estimator is
\* updated: no patch at all (X.reshape(0, -1) is a ValueError), or a
\* non-finite value, which partial_fit's input check refuses (ValueError).
Rejected(patch_vectors, has_nonfinite) ==
    Len(patch_vectors) = 0 \/ has_nonfinite

\* The component matrices (K rows of dim values) a partial_fit may leave.
Components(K, dim) ==
    { [k \in 1..K |-> [j \in 1..dim |-> IF (k + j) % 2 = 0 THEN 1 ELSE -1]],
      [k \in 1..K |-> [j \in 1..dim |-> IF j <= k THEN -1 ELSE 1]] }

\* A variant of stage2_images that keeps the maps of the first filter only.
first_filter_only(conv) == conv[1]

\* images.reshape(-1, h, w) of the stage-1 output (L1, n_images, h, w).
stage2_images(conv) == Concat(conv)

\* A 3D or 4D array mapped value by value.
Map3(A, Op(_)) ==
    [a \in 1..Len(A) |-> [b \in 1..Len(A[a]) |-> [c \in 1..Len(A[a][b]) |->
        Op(A[a][b][c])]]]

MapArray(a, Op(_)) ==
    [a EXCEPT !.data = IF ndim(a) = 4 THEN Map4(a.data, Op) ELSE Map3(a.data, Op)]

\* np.swapaxes(maps, 0, 1) of a 4D array.
swapaxes01(a) ==
    Array(<<a.shape[2], a.shape[1], a.shape[3], a.shape[4]>>,
          [n \in 1..a.shape[2] |-> [f \in 1..a.shape[1] |-> a.data[f][n]]])

\* np.hstack of a list of (n_images, length) arrays.
hstack(Xs) == [n \in 1..Len(Xs[1]) |-> Concat([l \in 1..Len(Xs) |-> Xs[l][n]])]

\* A variant of binarize_writes: the masked assignments land in the batch.
binarize_writes_images == "images"

\* The name whose array binarize(maps) of transform writes into: maps is the
\* array convolution_l2 has just built, so images is not aliased.
binarize_writes == "maps"

\* ------------------------------------------------------------- BasePCANet
\* BasePCANet.__init__: both estimators without components_, n_bins None.
BasePCANet == [pca_l1 |-> [components_ |-> <<>>],
               pca_l2 |-> [components_ |-> <<>>],
               n_bins |-> NoBins]

\* The two asserts opening fit and transform.
ShapeOk(images) ==
    /\ ndim(images) = 3
    /\ <<images.shape[2], images.shape[3]>> = params.image_shape

Locals(images) == [images |-> images, conv |-> NoArray, maps |-> NoArray]

\* The call ends (it returns value, or raises): its frame is dropped, the
\* caller keeps the batch it passed.
Return(call, raised, value) ==
    /\ result' = [call |-> call, raised |-> raised, value |-> value]
    /\ pc' = "idle"
    /\ mem' = Locals(mem.images)
    /\ idx' = 0
    /\ X' = <<>>

\* fit, lines 245-246.
FitBegin ==
    /\ pc = "fit_begin"
    /\ IF ShapeOk(mem.images)
       THEN pc' = "fit_l1" /\ UNCHANGED <<result, mem, idx, X>>
       ELSE Return("BasePCANet.fit", "AssertionError", <<>>)
    /\ log' = <<>>
    /\ UNCHANGED <<args, params, pcanets, cur, pre, wpc, wargs, wi, wX>>

\* fit, lines 247-251: one image's patches go to pca_l1.partial_fit.
FitPartialL1 ==
    /\ pc = "fit_l1" /\ idx < Len(mem.images.data)
    /\ IF Rejected(image_to_patch_vectors(mem.images.data[idx + 1], params.image_shape,
                    params.filter_shape_l1, params.step_shape_l1),
                (idx + 1) \in mem.images.nonfinite)
       THEN /\ Return("BasePCANet.fit", "ValueError", <<>>)
            /\ UNCHANGED <<pcanets, log>>
       ELSE /\ \E c \in Components(params.n_l1_output,
                                   params.filter_shape_l1[1] * params.filter_shape_l1[2]) :
                pcanets' = [pcanets EXCEPT ![cur].pca_l1.components_ = c]
            /\ idx' = idx + 1
            /\ log' = Append(log, [ev |-> "partial_fit_l1", k |-> idx + 1])
            /\ UNCHANGED <<result, pc, mem, X>>
    /\ UNCHANGED <<args, params, cur, pre, wpc, wargs, wi, wX>>

\* fit, lines 254-256: the stage-1 convolution of the whole batch.
FitConvolutionL1 ==
    /\ pc = "fit_l1" /\ idx = Len(mem.images.data)
    /\ LET r == convolve(pcanets[cur].pca_l1, mem.images.data, params.image_shape,
                         params.filter_shape_l1, params.step_shape_l1)
       IN  IF r.raised # None
           THEN /\ Return("BasePCANet.fit", r.raised, <<>>)
                /\ UNCHANGED log
           ELSE /\ mem' = [mem EXCEPT !.conv =
                              Array(<<Len(stage2_images(r.value.data)),
                                      r.value.shape[3], r.value.shape[4]>>,
                                    stage2_images(r.value.data))]
                /\ idx' = 0
                /\ log' = Append(log, [ev |-> "convolution_l1", k |-> 0])
                /\ pc' = "fit_l2" /\ UNCHANGED <<result, X>>
    /\ UNCHANGED <<args, params, pcanets, cur, pre, wpc, wargs, wi, wX>>

\* fit, lines 258-262: one stage-1 map's patches go to pca_l2.partial_fit.
FitPartialL2 ==
    /\ pc = "fit_l2" /\ idx < Len(mem.conv.data)
    /\ IF Rejected(image_to_patch_vectors(mem.conv.data[idx + 1],
                    <<mem.conv.shape[2], mem.conv.shape[3]>>,
                    params.filter_shape_l2, params.step_shape_l2), FALSE)
       THEN /\ Return("BasePCANet.fit", "ValueError", <<>>)
            /\ UNCHANGED <<pcanets, log>>
       ELSE /\ \E c \in Components(params.n_l2_output,
                                   params.filter_shape_l2[1] * params.filter_shape_l2[2]) :
                pcanets' = [pcanets EXCEPT ![cur].pca_l2.components_ = c]
            /\ idx' = idx + 1
            /\ log' = Append(log, [ev |-> "partial_fit_l2", k |-> idx + 1])
            /\ UNCHANGED <<result, pc, mem, X>>
    /\ UNCHANGED <<args, params, cur, pre, wpc, wargs, wi, wX>>

\* fit, line 263.
FitEnd ==
    /\ pc = "fit_l2" /\ idx = Len(mem.conv.data)
    /\ Return("BasePCANet.fit", None, <<>>)
    /\ UNCHANGED <<args, params, pcanets, cur, log, pre, wpc, wargs, wi, wX>>

\* transform, lines 267-273.
TransformBegin ==
    /\ pc = "tr_begin"
    /\ IF ~ShapeOk(mem.images)
       THEN Return("BasePCANet.transform", "AssertionError", <<>>)
       ELSE LET r == convolve(pcanets[cur].pca_l1, mem.images.data, params.image_shape,
                              params.filter_shape_l1, params.step_shape_l1)
            IN  IF r.raised # None
                THEN Return("BasePCANet.transform", r.raised, <<>>)
                ELSE /\ mem' = [mem EXCEPT !.conv = r.value]
                     /\ idx' = 0 /\ X' = <<>>
                     /\ pc' = "tr_conv_l2" /\ UNCHANGED result
    /\ UNCHANGED <<args, params, pcanets, cur, log, pre, wpc, wargs, wi, wX>>

\* transform, lines 278-283: the stage-2 convolution of one stage-1 output.
TransformConvolutionL2 ==
    /\ pc = "tr_conv_l2" /\ idx < Len(mem.conv.data)
    /\ LET r == convolve(pcanets[cur].pca_l2, mem.conv.data[idx + 1],
                         <<mem.conv.shape[3], mem.conv.shape[4]>>,
                         params.filter_shape_l2, params.step_shape_l2)
       IN  IF r.raised # None
           THEN Return("BasePCANet.transform", r.raised, <<>>)
           ELSE /\ mem' = [mem EXCEPT !.maps = swapaxes01(r.value)]
                /\ pc' = "tr_binarize" /\ UNCHANGED <<result, idx, X>>
    /\ UNCHANGED <<args, params, pcanets, cur, log, pre, wpc, wargs, wi, wX>>

\* transform, line 285: binarize writes into the array it is given.
TransformBinarize ==
    /\ pc = "tr_binarize"
    /\ mem' = [mem EXCEPT ![binarize_writes] = MapArray(@, binarize)]
    /\ pc' = "tr_histogram"
    /\ UNCHANGED <<args, result, params, pcanets, cur, idx, X, log, pre,
                   wpc, wargs, wi, wX>>

\* transform, lines 286-291: histogram sets self.n_bins when it is None.
TransformHistogram ==
    /\ pc = "tr_histogram"
    /\ X' = Append(X, histogram(binary_to_decimal(mem.maps.data),
                                <<mem.maps.shape[3], mem.maps.shape[4]>>,
                                params.block_shape, params.n_l2_output,
                                pcanets[cur].n_bins))
    /\ pcanets' = [pcanets EXCEPT ![cur].n_bins =
                      histogram_n_bins(params.n_l2_output, pcanets[cur].n_bins)]
    /\ idx' = idx + 1
    /\ pc' = "tr_conv_l2"
    /\ UNCHANGED <<args, result, params, cur, mem, log, pre, wpc, wargs, wi, wX>>

\* transform, lines 292-295: the counts are whole numbers, which astype keeps.
TransformEnd ==
    /\ pc = "tr_conv_l2" /\ idx = Len(mem.conv.data)
    /\ Return("BasePCANet.transform", None, hstack(X))
    /\ UNCHANGED <<args, params, pcanets, cur, log, pre, wpc, wargs, wi, wX>>

BaseSteps ==
    \/ FitBegin \/ FitPartialL1 \/ FitConvolutionL1 \/ FitPartialL2 \/ FitEnd
    \/ TransformBegin \/ TransformConvolutionL2 \/ TransformBinarize
    \/ TransformHistogram \/ TransformEnd

\* ------------------------------------------------------------------ inputs
MaxImages == 2      \* images in a batch
MaxChannels == 2    \* channels of a 4D batch


\* Three rows of pixels; every image of the batches below is one row high.
Row(k) ==
    CASE k = 0 -> <<0, 1, 2, 0, 1, 2>>
      [] k = 1 -> <<2, 0, 1, 1, 0, 2>>
      [] OTHER -> <<1, 1, 0, 2, 2, 0>>

Width == Len(Row(0))

\* The shapes given to the constructor: every stage tiles its input ...
TilingParams ==
    [image_shape |-> <<1, Width>>,
     filter_shape_l1 |-> <<1, 2>>, step_shape_l1 |-> <<1, 2>>, n_l1_output |-> 2,
     filter_shape_l2 |-> <<1, 2>>, step_shape_l2 |-> <<1, 1>>, n_l2_output |-> 2,
     block_shape |-> <<1, 1>>]

\* ... or stage 2 leaves the last column of the stage-1 output unvisited.
MarginParams ==
    [TilingParams EXCEPT !.step_shape_l1 = <<1, 1>>, !.step_shape_l2 = <<1, 2>>]

LifeParams == {TilingParams, MarginParams}

\* (n, 1, Width) batches, (n, 1, Width, C) batches, and misshapen ones.
Batch3(n, off) ==
    Array(<<n, 1, Width>>, [i \in 1..n |-> <<Row((i + off) % 3)>>])

Batch4(n, C, off) ==
    Array(<<n, 1, Width, C>>,
          [i \in 1..n |-> <<[x \in 1..Width |-> [c \in 1..C |-> Row((i + c + off) % 3)[x]]]>>])

Narrow3 == Array(<<1, 1, Width - 1>>, << <<SubSeq(Row(0), 1, Width - 1)>> >>)
Flat2 == Array(<<1, Width>>, <<Row(0)>>)

WithNonFinite(a, where) == [a EXCEPT !.nonfinite = where]

BaseFitBatches ==
    {Batch3(n, 0) : n \in 0..MaxImages}
        \cup {WithNonFinite(Batch3(MaxImages, 0), {MaxImages}), Narrow3, Flat2}

BaseTransformBatches ==
    {Batch3(n, off) : <<n, off>> \in (0..MaxImages) \X {0, 1}} \cup {Narrow3}

FitBatches ==
    {Batch3(0, 0), Batch3(MaxImages, 0), Narrow3, Flat2}
        \cup {Batch4(MaxImages, C, 0) : C \in 0..MaxChannels}
        \cup {WithNonFinite(Batch4(MaxImages, MaxChannels, 0), {<<1, MaxChannels>>})}

TransformBatches ==
    {Batch3(n, 1) : n \in 1..MaxImages} \cup {Narrow3, Flat2}
        \cup {Batch4(MaxImages, C, 1) : C \in 0..MaxChannels}

\* ----------------------------------------------- calls made on a BasePCANet
\* The filter banks of a list of pipelines.
Banks(ps) == [i \in 1..Len(ps) |-> <<ps[i].pca_l1, ps[i].pca_l2>>]

Snapshot(images) == [banks |-> Banks(pcanets), images |-> images]

InitObjects ==
    /\ params \in LifeParams
    /\ args = None /\ result = NoResult /\ pc = "idle"
    /\ mem = Locals(NoArray) /\ idx = 0 /\ X = <<>> /\ log = <<>>
    /\ pre = Snapshot(NoArray)
    /\ wpc = "idle" /\ wargs = NoArray /\ wi = 0 /\ wX = <<>>

InitBase ==
    /\ pcanets = <<BasePCANet>> /\ cur = 1
    /\ InitObjects

Enter(images, at) ==
    /\ args' = [images |-> images]
    /\ mem' = Locals(images)
    /\ pc' = at
    /\ result' = NoResult

BaseFit ==
    /\ pc = "idle"
    /\ \E b \in BaseFitBatches : Enter(b, "fit_begin") /\ pre' = Snapshot(b)
    /\ log' = <<>>
    /\ UNCHANGED <<params, pcanets, cur, idx, X, wpc, wargs, wi, wX>>

BaseTransform ==
    /\ pc = "idle"
    /\ \E b \in BaseTransformBatches : Enter(b, "tr_begin") /\ pre' = Snapshot(b)
    /\ log' = <<>>
    /\ UNCHANGED <<params, pcanets, cur, idx, X, wpc, wargs, wi, wX>>

BaseValidate ==
    /\ pc = "idle"
    /\ result' = [call |-> "BasePCANet.validate_structure",
                  raised |-> validate_structure(params), value |-> <<>>]
    /\ pre' = Snapshot(NoArray)
    /\ UNCHANGED <<args, params, pcanets, pc, cur, mem, idx, X, log,
                   wpc, wargs, wi, wX>>

NextBase == BaseFit \/ BaseTransform \/ BaseValidate \/ BaseSteps

SpecBase == InitBase /\ [][NextBase]_vars

\* ------------------------------------------------------------------ PCANet
\* atleast_4d: images.reshape(*images.shape, 1)
atleast_4d(images) ==
    [shape |-> images.shape \o <<1>>,
     data |-> Map3(images.data, LAMBDA v : <<v>>),
     nonfinite |-> {<<n, 1>> : n \in images.nonfinite}]

\* A variant of channel that counts the channels from the last one.
channel_reversed(images, i) ==
    [shape |-> SubSeq(images.shape, 1, 3),
     data |-> Map3(images.data, LAMBDA v : v[Len(v) - i]),
     nonfinite |-> {n \in 1..images.shape[1] : <<n, images.shape[4] - i>> \in images.nonfinite}]

\* images[:, :, :, i] for the 0-based channel i.
channel(images, i) ==
    [shape |-> SubSeq(images.shape, 1, 3),
     data |-> Map3(images.data, LAMBDA v : v[i + 1]),
     nonfinite |-> {n \in 1..images.shape[1] : <<n, i + 1>> \in images.nonfinite}]

\* The PCANet call ends: its frame and the BasePCANet frame below are dropped.
Leave(call, raised, value) ==
    /\ result' = [call |-> call, raised |-> raised, value |-> value]
    /\ wpc' = "idle"
    /\ wargs' = NoArray /\ wi' = 0 /\ wX' = <<>>
    /\ args' = None /\ mem' = Locals(NoArray) /\ cur' = 0 /\ log' = <<>>

\* fit, lines 333-342: the pipelines are replaced before any channel is fitted.
Fit ==
    /\ wpc = "idle" /\ pc = "idle"
    /\ \E b \in FitBatches :
        /\ pre' = Snapshot(b)
        /\ IF ndim(b) < 3
           THEN /\ Leave("PCANet.fit", "AssertionError", <<>>)
                /\ UNCHANGED pcanets
           ELSE LET images == IF ndim(b) = 3 THEN atleast_4d(b) ELSE b
                IN  /\ wargs' = images
                    /\ pcanets' = [i \in 1..images.shape[4] |-> BasePCANet]
                    /\ wpc' = "fit_loop" /\ wi' = 0
                    /\ result' = NoResult
                    /\ UNCHANGED <<args, mem, cur, log, wX>>
    /\ UNCHANGED <<params, pc, idx, X>>

\* fit, lines 344-346: self.pcanets[i].fit(images[:, :, :, i]) is entered ...
FitChannel ==
    /\ wpc = "fit_loop" /\ wi < wargs.shape[4]
    /\ Enter(channel(wargs, wi), "fit_begin")
    /\ cur' = wi + 1
    /\ wpc' = "fit_wait"
    /\ UNCHANGED <<params, pcanets, idx, X, log, pre, wargs, wi, wX>>

\* ... and returns, or raises through PCANet.fit.
FitReturn ==
    /\ wpc = "fit_wait" /\ pc = "idle"
    /\ IF result.raised # None
       THEN Leave("PCANet.fit", result.raised, <<>>)
       ELSE /\ wi' = wi + 1 /\ wpc' = "fit_loop"
            /\ UNCHANGED <<result, args, mem, cur, log, wargs, wX>>
    /\ UNCHANGED <<params, pcanets, pc, idx, X, pre>>

FitDone ==
    /\ wpc = "fit_loop" /\ wi = wargs.shape[4]
    /\ Leave("PCANet.fit", None, <<>>)
    /\ UNCHANGED <<params, pcanets, pc, idx, X, pre>>

\* transform, lines 349-356.
Transform ==
    /\ wpc = "idle" /\ pc = "idle"
    /\ \E b \in TransformBatches :
        /\ pre' = Snapshot(b)
        /\ IF ndim(b) < 3
           THEN Leave("PCANet.transform", "AssertionError", <<>>)
           ELSE /\ wargs' = IF ndim(b) = 3 THEN atleast_4d(b) ELSE b
                /\ wpc' = "tr_loop" /\ wi' = 0 /\ wX' = <<>>
                /\ result' = NoResult
                /\ UNCHANGED <<args, mem, cur, log>>
    /\ UNCHANGED <<params, pcanets, pc, idx, X>>

\* transform, lines 357-358: self.pcanets[i] of a missing pipeline is an
\* IndexError; else self.pcanets[i].transform(images[:, :, :, i]) is entered.
TransformChannel ==
    /\ wpc = "tr_loop" /\ wi < wargs.shape[4]
    /\ IF wi + 1 > Len(pcanets)
       THEN /\ Leave("PCANet.transform", "IndexError", <<>>)
            /\ UNCHANGED pc
       ELSE /\ Enter(channel(wargs, wi), "tr_begin")
            /\ cur' = wi + 1
            /\ wpc' = "tr_wait"
            /\ UNCHANGED <<log, wargs, wi, wX>>
    /\ UNCHANGED <<params, pcanets, idx, X, pre>>

\* transform, lines 358-359: x is appended to X, or the error goes through.
TransformReturn ==
    /\ wpc = "tr_wait" /\ pc = "idle"
    /\ IF result.raised # None
       THEN Leave("PCANet.transform", result.raised, <<>>)
       ELSE /\ wX' = Append(wX, result.value)
            /\ wi' = wi + 1 /\ wpc' = "tr_loop"
            /\ UNCHANGED <<result, args, mem, cur, log, wargs>>
    /\ UNCHANGED <<params, pcanets, pc, idx, X, pre>>

\* transform, lines 360-361: np.hstack of an empty list is a ValueError.
TransformDone ==
    /\ wpc = "tr_loop" /\ wi = wargs.shape[4]
    /\ IF wX = <<>>
       THEN Leave("PCANet.transform", "ValueError", <<>>)
       ELSE Leave("PCANet.transform", None, hstack(wX))
    /\ UNCHANGED <<params, pcanets, pc, idx, X, pre>>

\* validate_structure, lines 364-365: the first pipeline that raises ends it.
first_error(errors) ==
    IF \A i \in 1..Len(errors) : errors[i] = None THEN None
    ELSE errors[CHOOSE i \in 1..Len(errors) :
                    errors[i] # None /\ \A j \in 1..(i - 1) : errors[j] = None]

Validate ==
    /\ wpc = "idle" /\ pc = "idle"
    /\ result' = [call |-> "PCANet.validate_structure",
                  raised |-> first_error([i \in 1..Len(pcanets) |->
                                              validate_structure(params)]),
                  value |-> <<>>]
    /\ pre' = Snapshot(NoArray)
    /\ UNCHANGED <<args, params, pcanets, pc, cur, mem, idx, X, log,
                   wpc, wargs, wi, wX>>

Init ==
    /\ pcanets = <<>> /\ cur = 0
    /\ InitObjects

Next ==
    \/ Fit \/ FitChannel \/ FitReturn \/ FitDone
    \/ Transform \/ TransformChannel \/ TransformReturn \/ TransformDone
    \/ Validate
    \/ BaseSteps

Spec == Init /\ [][Next]_vars

\* ==================================================== module-level functions
NoObjects ==
    /\ pcanets = <<>> /\ cur = 0 /\ mem = None /\ idx = 0 /\ X = <<>>
    /\ log = <<>> /\ pre = None /\ wpc = "idle" /\ wargs = None /\ wi = 0
    /\ wX = <<>>

Shapes(n) == (1..n) \X (1..n)
StepShapes == (1..MaxStep) \X (1..MaxStep)

\* np.shape of a 2D array with at least one row.
ShapeOf(image) == <<Len(image), Len(image[1])>>

\* An h x w image whose pixels are all different.
Labelled(shape) == [r \in 1..shape[1] |-> [c \in 1..shape[2] |-> (r - 1) * shape[2] + c]]

\* ---- Patches(image, filter_shape, step_shape).patches on every small grid
InitPatches ==
    /\ args \in [image : {Labelled(s) : s \in Shapes(MaxDim)},
                 filter_shape : Shapes(MaxDim), step_shape : StepShapes]
    /\ result = NoResult /\ params = None /\ pc = "idle"
    /\ NoObjects

CallPatches ==
    /\ pc = "idle"
    /\ pc' = "done"
    /\ result' = Patches(args.image, ShapeOf(args.image),
                         args.filter_shape, args.step_shape)
    /\ UNCHANGED <<args, params, objvars>>

SpecPatches == InitPatches /\ [][CallPatches]_vars

\* ---- BasePCANet.validate_structure on every small configuration
ShapeParams(n) ==
    [image_shape : Shapes(n), filter_shape_l1 : Shapes(n), step_shape_l1 : StepShapes,
     filter_shape_l2 : Shapes(n), step_shape_l2 : StepShapes, block_shape : Shapes(n)]

InitValidate ==
    /\ params \in ShapeParams(MaxSide)
    /\ args = None /\ result = NoResult /\ pc = "idle"
    /\ NoObjects

CallValidate ==
    /\ pc = "idle"
    /\ pc' = "done"
    /\ result' = [call |-> "BasePCANet.validate_structure",
                  raised |-> validate_structure(params), value |-> None]
    /\ UNCHANGED <<args, params, objvars>>

SpecValidate == InitValidate /\ [][CallValidate]_vars

\* ---- binarize, then binary_to_decimal, on every small stack of maps
EncValues == {-2, 0, 3}

\* A stack of shape (EncImages, L2, EncRows, w): base gives image 1, row 1;
\* the other images and rows flip its signs so that they differ.
EncStack(base, L2, w) ==
    [n \in 1..EncImages |-> [b \in 1..L2 |-> [y \in 1..EncRows |-> [x \in 1..w |->
        IF (n + y) % 2 = 0 THEN base[b][x] ELSE 0 - base[b][x]]]]]

EncStacks ==
    UNION {{EncStack(base, L2, w) : base \in [1..L2 -> [1..w -> EncValues]]} :
           <<L2, w>> \in (1..MaxL2) \X (1..MaxWidth)}

InitEncode ==
    /\ \E A \in EncStacks : args = [X |-> A, given |-> A]
    /\ result = NoResult /\ params = None /\ pc = "idle"
    /\ NoObjects

\* maps = binarize(maps): the masked assignments write into the array given.
CallBinarize ==
    /\ pc = "idle"
    /\ pc' = "binarized"
    /\ args' = [args EXCEPT !.X = Map4(args.X, binarize)]
    /\ UNCHANGED <<result, params, objvars>>

\* maps = binary_to_decimal(maps)
CallBinaryToDecimal ==
    /\ pc = "binarized"
    /\ pc' = "done"
    /\ result' = [call |-> "binary_to_decimal", raised |-> None,
                  value |-> binary_to_decimal(args.X)]
    /\ UNCHANGED <<args, params, objvars>>

NextEncode == CallBinarize \/ CallBinaryToDecimal

SpecEncode == InitEncode /\ [][NextEncode]_vars

\* ---- BasePCANet.histogram on small encoded maps
\* The block of the docstring of BasePCANet.histogram.
DocBlock == << <<0, 0, 1>>, <<2, 2, 2>>, <<2, 3, 3>> >>

HistImages(L2) ==
    {<< <<a, b>> >> : <<a, b>> \in (0..(Pow2(L2) - 1)) \X (0..(Pow2(L2) - 1))}
        \cup (IF L2 = 2 THEN {DocBlock} ELSE {})

InitHistogram ==
    /\ \E L2 \in 1..MaxHistL2 : \E im \in HistImages(L2) :
       \E bs \in {<<1, 1>>, ShapeOf(im)} : \E nb \in {NoBins} \cup (2..MaxBins) :
        /\ params = [n_l2_output |-> L2, block_shape |-> bs]
        /\ args = [binary_images |-> <<im>>, n_bins |-> nb]
        /\ pcanets = <<[BasePCANet EXCEPT !.n_bins = nb]>>
    /\ result = NoResult /\ pc = "idle"
    /\ cur = 1 /\ mem = None /\ idx = 0 /\ X = <<>>
    /\ log = <<>> /\ pre = None /\ wpc = "idle" /\ wargs = None /\ wi = 0
    /\ wX = <<>>

CallHistogram ==
    /\ pc = "idle"
    /\ pc' = "done"
    /\ result' = [call |-> "BasePCANet.histogram", raised |-> None,
                  value |-> histogram(args.binary_images,
                                      ShapeOf(args.binary_images[1]),
                                      params.block_shape, params.n_l2_output,
                                      pcanets[cur].n_bins)]
    /\ pcanets' = [pcanets EXCEPT ![cur].n_bins =
                      histogram_n_bins(params.n_l2_output, pcanets[cur].n_bins)]
    /\ UNCHANGED <<args, params, cur, mem, idx, X, log, pre, wpc, wargs, wi, wX>>

SpecHistogram == InitHistogram /\ [][CallHistogram]_vars

\* ===================================================================== claims
\* ys (or xs) is the grid of one axis: the multiples of step from 0 on that
\* leave room for the filter, in ascending order, and none is missing.
GridExact(g, step, f, n) ==
    /\ Len(g) >= 1
    /\ \A k \in 1..Len(g) : g[k] = (k - 1) * step
    /\ {g[k] : k \in 1..Len(g)} = {y \in 0..n : y % step = 0 /\ y + f <= n}
    /\ g[Len(g)] + f <= n
    /\ g[Len(g)] + step + f > n

FilterFits ==
    /\ args.filter_shape[1] <= Len(args.image)
    /\ args.filter_shape[2] <= Len(args.image[1])

\* C5: for a filter that fits the image, steps() returns exactly the multiples
\* of the step that leave room for the filter (so ys[-1] + filter_h <= height
\* and the next offset does not fit), and Patches returns len(ys)*len(xs)
\* patches of shape filter_shape, patch (i, j) in y-major order being the
\* window of the image at (ys[i], xs[j]).
C5_GridAndPatches ==
    (pc = "done" /\ FilterFits) =>
        LET ys == result.ys
            xs == result.xs
            fh == args.filter_shape[1]
            fw == args.filter_shape[2]
        IN  /\ GridExact(ys, args.step_shape[1], fh, Len(args.image))
            /\ GridExact(xs, args.step_shape[2], fw, Len(args.image[1]))
            /\ Len(result.patches) = Len(ys) * Len(xs)
            /\ \A p \in 1..Len(result.patches) :
                   /\ Len(result.patches[p]) = fh
                   /\ \A r \in 1..fh : Len(result.patches[p][r]) = fw
            /\ \A i \in 1..Len(ys) : \A j \in 1..Len(xs) :
               \A r \in 1..fh : \A c \in 1..fw :
                   result.patches[(i - 1) * Len(xs) + j][r][c]
                       = args.image[ys[i] + r][xs[j] + c]

\* A grid of several rows and columns of patches, stepping by 2 down the
\* image and leaving a margin of the height unvisited.
C5_Witness ==
    /\ pc = "done" /\ FilterFits
    /\ args.step_shape = <<2, 2>>
    /\ Len(result.ys) >= 2 /\ Len(result.xs) >= 2
    /\ result.ys[Len(result.ys)] + args.filter_shape[1] < Len(args.image)
    /\ args.filter_shape[2] >= 2

\* Whether the grid of one stage leaves its input untiled: no offset at all,
\* or last_offset + filter_dim # input_dim on an axis.
LeavesMargin(input_shape, filter_shape, step_shape) ==
    LET g == steps(input_shape, filter_shape, step_shape)
    IN  \E a \in 1..2 :
            IF Len(g[a]) = 0 THEN TRUE
            ELSE g[a][Len(g[a])] + filter_shape[a] # input_shape[a]

StageOut(input_shape, filter_shape, step_shape) ==
    LET g == steps(input_shape, filter_shape, step_shape)
    IN  <<Len(g[1]), Len(g[2])>>

AnyStageLeavesMargin(p) ==
    LET o1 == StageOut(p.image_shape, p.filter_shape_l1, p.step_shape_l1)
        o2 == StageOut(o1, p.filter_shape_l2, p.step_shape_l2)
    IN  \/ LeavesMargin(p.image_shape, p.filter_shape_l1, p.step_shape_l1)
        \/ LeavesMargin(o1, p.filter_shape_l2, p.step_shape_l2)
        \/ LeavesMargin(o2, p.block_shape, p.block_shape)

\* C1: validate_structure raises ValueError exactly when some stage (stage 1
\* on image_shape, stage 2 on the stage-1 output shape, the block tiling on
\* the stage-2 output shape) leaves a margin, and otherwise returns without
\* any error.
C1_ValueErrorIffMargin ==
    pc = "done" =>
        IF AnyStageLeavesMargin(params)
        THEN result.raised = "ValueError"
        ELSE result.raised = None

\* Horner's rule on the bits of one pixel, most significant first.
RECURSIVE BigEndian(_)
BigEndian(bits) ==
    IF bits = <<>> THEN 0
    ELSE 2 * BigEndian(SubSeq(bits, 1, Len(bits) - 1)) + bits[Len(bits)]

Bit(v) == IF v > 0 THEN 1 ELSE 0

\* C8: binarize followed by binary_to_decimal packs the L2 maps big-endian:
\* the value at each pixel of each image is the sum of bit_b * 2^(L2-1-b)
\* with bit_b = 1 when map b is > 0 there and 0 when it is <= 0; the output
\* has shape (n_images, h, w) and its values lie in [0, 2^L2 - 1].
C8_BigEndianPacking ==
    pc = "done" =>
        LET A == args.given
            D == result.value
        IN  /\ Len(D) = Len(A)
            /\ \A n \in 1..Len(A) :
                /\ Len(D[n]) = Len(A[n][1])
                /\ \A y \in 1..Len(A[n][1]) :
                    /\ Len(D[n][y]) = Len(A[n][1][y])
                    /\ \A x \in 1..Len(A[n][1][y]) :
                        /\ D[n][y][x] =
                              BigEndian([b \in 1..Len(A[n]) |-> Bit(A[n][b][y][x])])
                        /\ D[n][y][x] \in 0..(Pow2(Len(A[n])) - 1)

\* Three maps whose bits at a pixel are [1, 0, 1], the 0 bit coming from a
\* value of exactly 0 and the 1 bits from values above 1: the pixel decodes
\* to 5.
C8_Witness ==
    /\ pc = "done"
    /\ Len(args.given[1]) = 3
    /\ args.given[1][1][1][1] = 3
    /\ args.given[1][2][1][1] = 0
    /\ args.given[1][3][1][1] = 3
    /\ result.value[1][1][1] = 5

\* The number of blocks of the image given to histogram.
NBlocks ==
    LET g == steps(ShapeOf(args.binary_images[1]), params.block_shape,
                   params.block_shape)
    IN  Len(g[1]) * Len(g[2])

\* C7: when n_bins is specified the histogram of a block has n_bins counts,
\* over n_bins equal-width bins of [-0.5, 2^L2 - 0.5]; for L2 = 2, n_bins = 2
\* and the block [[0,0,1],[2,2,2],[2,3,3]] it is [3, 6].
C7_NBinsCounts ==
    (pc = "done" /\ args.n_bins # NoBins) =>
        /\ Len(result.value[1]) = args.n_bins * NBlocks
        /\ ( /\ params.n_l2_output = 2 /\ args.n_bins = 2
             /\ args.binary_images[1] = DocBlock
             /\ params.block_shape = <<3, 3>> )
           => result.value[1] = <<3, 6>>

\* Both estimators of a pipeline have components_.
Fitted(p) == p.pca_l1.components_ # <<>> /\ p.pca_l2.components_ # <<>>

\* C2: PCANet.validate_structure never returns normally for a configuration
\* that leaves a margin at some stage: it raises the structural error,
\* before fit as well as after it.
C2_ValidateRejectsMargin ==
    (wpc = "idle" /\ result.call = "PCANet.validate_structure"
        /\ AnyStageLeavesMargin(params))
    => result.raised = "ValueError"

\* C3: transform returns feature vectors only when both filter banks are
\* fitted: of the pipeline, for BasePCANet.transform, and of every pipeline
\* the wrapper holds, for PCANet.transform.
C3_TransformNeedsFitted ==
    /\ (pc = "idle" /\ result.call = "BasePCANet.transform" /\ result.raised = None)
       => Fitted(pcanets[cur])
    /\ (wpc = "idle" /\ result.call = "PCANet.transform" /\ result.raised = None)
       => \A i \in 1..Len(pcanets) : Fitted(pcanets[i])

\* C10: a PCANet.fit that fails the shape check leaves the wrapper's
\* pipelines and their filter banks as they were before the call.
C10_FailedFitKeepsState ==
    (wpc = "idle" /\ result.call = "PCANet.fit" /\ result.raised = "AssertionError")
    => Banks(pcanets) = pre.banks

\* BasePCANet.transform as one function of the pipeline and a 3D batch.
base_transform_map(p, L1, l) ==
    LET conv == {convolution(L1.data[l], <<L1.shape[3], L1.shape[4]>>,
                     reshape_filters(p.pca_l2.components_, params.filter_shape_l2),
                     params.filter_shape_l2, params.step_shape_l2)}
    IN  CHOOSE x \in {histogram(binary_to_decimal(Map4(swapaxes01(c).data, binarize)),
                                <<c.shape[3], c.shape[4]>>, params.block_shape,
                                params.n_l2_output, p.n_bins) : c \in conv} : TRUE

base_transform(p, images) ==
    LET conv == {convolution(images, params.image_shape,
                     reshape_filters(p.pca_l1.components_, params.filter_shape_l1),
                     params.filter_shape_l1, params.step_shape_l1)}
    IN  CHOOSE r \in {hstack([l \in 1..L1.shape[1] |-> base_transform_map(p, L1, l)]) :
                      L1 \in conv} : TRUE

\* Channel c (from 1) of the batch the caller gave: the batch itself when 3D.
GivenChannel(b, c) ==
    IF ndim(b) = 3 THEN b.data
    ELSE [n \in 1..b.shape[1] |-> [y \in 1..b.shape[2] |-> [x \in 1..b.shape[3] |->
             b.data[n][y][x][c]]]]

GivenChannels(b) == IF ndim(b) = 3 THEN 1 ELSE b.shape[4]

\* C6: the vector PCANet.transform returns for an image is the concatenation,
\* in channel order, of what each channel's pipeline alone makes of that
\* channel of the batch (its length the sum of theirs); a 3D batch is one
\* channel.
C6_ChannelConcatenation ==
    (wpc = "idle" /\ result.call = "PCANet.transform" /\ result.raised = None) =>
        \A per \in {[c \in 1..GivenChannels(pre.images) |->
                        base_transform(pcanets[c], GivenChannel(pre.images, c))]} :
            /\ Len(result.value) = pre.images.shape[1]
            /\ \A n \in 1..pre.images.shape[1] :
                /\ result.value[n] = Concat([c \in 1..Len(per) |-> per[c][n]])
                /\ Len(result.value[n]) = SumSeq([c \in 1..Len(per) |-> Len(per[c][n])])

\* A two-channel batch was transformed and the two channels' vectors differ.
C6_Witness ==
    /\ wpc = "idle" /\ result.call = "PCANet.transform" /\ result.raised = None
    /\ ndim(pre.images) = 4 /\ pre.images.shape[4] = 2 /\ pre.images.shape[1] >= 2
    /\ base_transform(pcanets[1], GivenChannel(pre.images, 1))
         # base_transform(pcanets[2], GivenChannel(pre.images, 2))

\* C4: BasePCANet.transform, whether it returns or raises, leaves the two
\* filter banks and the caller's batch as they were, at every step of it.
C4_TransformKeepsBanksAndInput ==
    (pc \in {"tr_begin", "tr_conv_l2", "tr_binarize", "tr_histogram"}
        \/ (pc = "idle" /\ result.call = "BasePCANet.transform")) =>
        /\ Banks(pcanets) = pre.banks
        /\ mem.images = pre.images

\* A transform of two images returned after binarize had values to change.
C4_Witness ==
    /\ pc = "idle" /\ result.call = "BasePCANet.transform" /\ result.raised = None
    /\ Len(pre.images.data) = 2
    /\ pcanets[1].n_bins # NoBins
    /\ \E n \in 1..2 : \E x \in 1..Width : pre.images.data[n][1][x] > 1

\* The estimator events of a fit of N images that yields L1 stage-1 maps each.
ExpectedLog(N, L1) ==
    [k \in 1..N |-> [ev |-> "partial_fit_l1", k |-> k]]
        \o << [ev |-> "convolution_l1", k |-> 0] >>
        \o [k \in 1..(L1 * N) |-> [ev |-> "partial_fit_l2", k |-> k]]

IsPrefix(s, t) == Len(s) <= Len(t) /\ s = SubSeq(t, 1, Len(s))

\* C9: within BasePCANet.fit the N stage-1 partial_fit calls (one per image,
\* in batch order) all precede the stage-1 convolution, every stage-2
\* partial_fit follows it, and a fit that returns has made exactly L1*N
\* stage-2 calls, one per stage-1 output map.
C9_FitEventOrder ==
    /\ pc \in {"fit_l1", "fit_l2"}
       => IsPrefix(log, ExpectedLog(Len(pre.images.data), params.n_l1_output))
    /\ (pc = "idle" /\ result.call = "BasePCANet.fit" /\ result.raised = None)
       => log = ExpectedLog(Len(pre.images.data), params.n_l1_output)

\* A fit of two images returned.
C9_Witness ==
    /\ pc = "idle" /\ result.call = "BasePCANet.fit" /\ result.raised = None
    /\ Len(pre.images.data) = 2
    /\ Len(log) = 2 + 1 + params.n_l1_output * 2

====
